---- MODULE Spec2Model ----
(***************************************************************************)
(* Session state machine and query queue of the PostgreSQL client:         *)
(* Client (src/lib/utils.js, from line 206) on top of Connection           *)
(* (src/unnamed/part_001).                                                 *)
(*                                                                         *)
(* The client side (Client, its Connection and the stream) is one record   *)
(* of fields; every handler of the source is an operator from such a       *)
(* record to the record after the handler has run, so that a handler that  *)
(* calls another one is the composition of the two operators.  An action   *)
(* applies one handler to the current state (Cur) and commits the result.  *)
(*                                                                         *)
(* The backend is the environment: it answers the messages written to the  *)
(* stream as the frontend/backend protocol prescribes (one ReadyForQuery   *)
(* per query, a fatal ErrorResponse is followed by the backend closing).   *)
(*                                                                         *)
(* Node's scheduling: a handler runs to completion; callbacks queued with  *)
(* process.nextTick run, in order, after the running macrotask and before  *)
(* any timer or stream event.  Several messages of one data chunk are      *)
(* dispatched in the same macrotask.  Caller code run from inside a        *)
(* callback (re-entrancy) is not modelled.                                 *)
(***************************************************************************)
EXTENDS Integers, Sequences, FiniteSets, TLC

\* Bounds of the model.
MaxQueries == 2     \* query() calls
MaxConnects == 2    \* connect() calls
MaxEnds == 1        \* end() calls
MaxNotices == 1     \* NotificationResponse and NoticeResponse messages
MaxArrayLen == 3    \* length of an array passed to prepareValue
MaxInnerLen == 1    \* length of an array nested in it

\* activeQuery = null / undefined; _connectionCallback = null / undefined
NoQuery == 0
NoCallback == 0

\* query.name of a query that is not a prepared statement, and the statement names
NoName == ""
StatementNames == {"a", "b"}

\* processID / secretKey = null; the pairs a backend can send in BackendKeyData
NoKey == 0
BackendKeys == {1, 2}

VARIABLES
  ending,             \* Client._ending
  ended,              \* Client._ended
  connecting,         \* Client._connecting
  connected,          \* Client._connected
  connectionError,    \* Client._connectionError
  queryable,          \* Client._queryable
  readyForQuery,      \* Client.readyForQuery (undefined is FALSE: the code tests === true)
  hasExecuted,        \* Client.hasExecuted
  activeQuery,        \* Client.activeQuery: a query id or NoQuery
  queryQueue,         \* Client.queryQueue: sequence of query ids
  connectionCallback, \* Client._connectionCallback: id of a connect() call or NoCallback
  stateConnecting,    \* Connection.state.connecting
  stream,             \* the socket: "init", "connecting", "open", "halfclosed", "destroyedErr", "destroyed", "closed"
  ticks,              \* pending process.nextTick callbacks, in order
  qcfg,               \* per query() call: [timeout, bad, name] (has a read timeout; submit returns an error; query.name)
  qcb,                \* per query: query.callback is the caller's ("orig"), the timer wrapper ("wrapped"), or () => {} ("noop")
  timer,              \* per query: readTimeoutTimer "none", "armed", "cleared", "fired"
  completions,        \* history: invocations of the callers' query callbacks, [q, res]
  submitLog,          \* history: queries whose submit() was called, in order
  wire,               \* queries written to the open stream and not yet answered by ReadyForQuery
  cbLog,              \* history: invocations of connect callbacks, [c, res]
  nConnects,          \* number of connect() calls so far
  endCalls,           \* history: end() calls, [open, done]
  errorEvents,        \* number of 'error' events emitted by the Client
  connectEvents,      \* number of 'connect' events emitted by the Client
  cancelCon,          \* the cancelling client's connection: "idle", "connecting", "sent"
  cancelWire,         \* the CancelRequests written to the cancelling client's stream: their processID / secretKey
  processID,          \* Client.processID and Client.secretKey: the pair of BackendKeyData or NoKey
  removed,            \* history: queries taken out of queryQueue before their submit, [q, by]
  connectionParameters, \* Client.connectionParameters: [connectionTimeoutMillis, ssl, password, passwordProp]
  connTimer,          \* Client.connectionTimeoutHandle: "none", "armed", "cleared", "fired"
  conEnding,          \* Connection._ending
  terminateSent,      \* a Terminate message has been written to the stream
  pgpass,             \* the promise chain of _checkPgPass: "none", "pending", "stored", "deleted", "failed"
  pwSent,             \* the password callback of _checkPgPass has written the client's response
  notices,            \* history: 'notification' and 'notice' events emitted by the Client
  stateParsedStatements, \* Connection.state.parsedStatements: the names it holds
  parsedStatements,   \* connection.parsedStatements as the Client reads it: [defined, names]
  prepared,           \* a query parameter and prepareValue of it: [value, done, result]
  sslState,           \* Connection: the SSL negotiation: "off", "waiting", "tls", "refused", "failed"
  sent,               \* history: the handshake of the session: messages written and events emitted, in order
  crashed,            \* an exception escaped a handler (a TypeError on a null activeQuery)
  srvKey,             \* backend: the processID / secretKey pair of the backend process
  srv,                \* backend: "off", "ssl", "auth", "pwwait", "sasldone", "authok", "keyed", "ready", "gone"
  srvQ,               \* backend's progress on the head of wire: "exec", "parsed", "rows", "done"
  mode                \* scheduling: "idle", "api", "data", "drain"

vars == <<ending, ended, connecting, connected, connectionError, queryable,
          readyForQuery, hasExecuted, activeQuery, queryQueue, connectionCallback,
          stateConnecting, stream, ticks, qcfg, qcb, timer, completions, submitLog,
          wire, cbLog, nConnects, endCalls, errorEvents, connectEvents, cancelCon,
          cancelWire, processID, removed, connectionParameters, connTimer, conEnding,
          terminateSent, pgpass, pwSent, notices, sslState, sent,
          stateParsedStatements, parsedStatements, prepared, crashed, srvKey, srv,
          srvQ, mode>>

\* The client-side state as one record.
Cur ==
  [ending |-> ending, ended |-> ended, connecting |-> connecting,
   connected |-> connected, connectionError |-> connectionError,
   queryable |-> queryable, readyForQuery |-> readyForQuery,
   hasExecuted |-> hasExecuted, activeQuery |-> activeQuery,
   queryQueue |-> queryQueue, connectionCallback |-> connectionCallback,
   stateConnecting |-> stateConnecting, stream |-> stream, ticks |-> ticks,
   qcfg |-> qcfg, qcb |-> qcb, timer |-> timer, completions |-> completions,
   submitLog |-> submitLog, wire |-> wire, cbLog |-> cbLog,
   nConnects |-> nConnects, endCalls |-> endCalls, errorEvents |-> errorEvents,
   connectEvents |-> connectEvents, cancelCon |-> cancelCon,
   cancelWire |-> cancelWire, processID |-> processID, removed |-> removed,
   connectionParameters |-> connectionParameters, connTimer |-> connTimer,
   conEnding |-> conEnding, terminateSent |-> terminateSent, pgpass |-> pgpass,
   pwSent |-> pwSent, notices |-> notices, sslState |-> sslState, sent |-> sent,
   stateParsedStatements |-> stateParsedStatements,
   parsedStatements |-> parsedStatements, prepared |-> prepared,
   crashed |-> crashed]

\* The state after a handler: s is the record it returns, kind the macrotask it ran in.
Commit(s, kind) ==
  /\ ending' = s.ending
  /\ ended' = s.ended
  /\ connecting' = s.connecting
  /\ connected' = s.connected
  /\ connectionError' = s.connectionError
  /\ queryable' = s.queryable
  /\ readyForQuery' = s.readyForQuery
  /\ hasExecuted' = s.hasExecuted
  /\ activeQuery' = s.activeQuery
  /\ queryQueue' = s.queryQueue
  /\ connectionCallback' = s.connectionCallback
  /\ stateConnecting' = s.stateConnecting
  /\ stream' = s.stream
  /\ ticks' = s.ticks
  /\ qcfg' = s.qcfg
  /\ qcb' = s.qcb
  /\ timer' = s.timer
  /\ completions' = s.completions
  /\ submitLog' = s.submitLog
  /\ wire' = s.wire
  /\ cbLog' = s.cbLog
  /\ nConnects' = s.nConnects
  /\ endCalls' = s.endCalls
  /\ errorEvents' = s.errorEvents
  /\ connectEvents' = s.connectEvents
  /\ cancelCon' = s.cancelCon
  /\ cancelWire' = s.cancelWire
  /\ processID' = s.processID
  /\ removed' = s.removed
  /\ connectionParameters' = s.connectionParameters
  /\ connTimer' = s.connTimer
  /\ conEnding' = s.conEnding
  /\ terminateSent' = s.terminateSent
  /\ pgpass' = s.pgpass
  /\ pwSent' = s.pwSent
  /\ notices' = s.notices
  /\ sslState' = s.sslState
  /\ sent' = s.sent
  /\ stateParsedStatements' = s.stateParsedStatements
  /\ parsedStatements' = s.parsedStatements
  /\ prepared' = s.prepared
  /\ crashed' = s.crashed
  /\ mode' = IF s.ticks = <<>> \/ s.crashed THEN "idle" ELSE kind
  /\ srvKey' = srvKey

\* normalizeConnectionParameters(config): the password is defined as a
\* non-enumerable, writable, configurable property; the other fields are
\* assigned (enumerable).  password is the type of the value; ssl is
\* config.ssl ?? false, which is also what the Connection is constructed with.
NormalizeConnectionParameters(config) ==
  [connectionTimeoutMillis |-> config.connectionTimeoutMillis,
   ssl |-> config.ssl,
   password |-> config.password,
   passwordProp |-> "hidden"]

\* the keys a structural dump of connectionParameters shows (console.log,
\* JSON.stringify, Object.keys): its enumerable own properties
EnumerableKeys(cp) ==
  {"user", "database", "port", "host", "binary", "options", "ssl", "clientEncoding",
   "replication", "isDomainSocket", "application_name", "statement_timeout",
   "lock_timeout", "idle_in_transaction_session_timeout", "query_timeout",
   "connectionTimeoutMillis", "connect_timeout"}
    \cup (IF cp.passwordProp = "enumerable" THEN {"password"} ELSE {})

\* the password stored as a new enumerable property, as { ...params, password } would
AssignPassword_Enumerable(cp, value) ==
  [cp EXCEPT !.password = value, !.passwordProp = "enumerable"]

\* this.connectionParameters.password = pass: the existing property keeps its
\* attributes; an object without the property gets an enumerable one
AssignPassword(cp, value) ==
  [cp EXCEPT !.password = value,
             !.passwordProp = IF @ = "absent" THEN "enumerable" ELSE @]

\* delete this.connectionParameters.password (the property is configurable)
DeletePassword(cp) ==
  [cp EXCEPT !.password = "undefined", !.passwordProp = "absent"]

(***************************************************************************)
(* prepareValue: JavaScript values are records, strings are sequences of   *)
(* characters.                                                             *)
(***************************************************************************)

JsNull == [type |-> "null"]
JsNumber(n) == [type |-> "number", v |-> n]
JsArray(items) == [type |-> "array", items |-> items]

\* the sequences over S of length at most n
SeqUpTo(S, n) == UNION {[1..k -> S] : k \in 0..n}

\* the integers, the elements and the arrays that prepareValue is applied to
ArrayIntegers == {-1, 1, 2, 10}
Scalars == {JsNull} \cup {JsNumber(n) : n \in ArrayIntegers}
InnerArrays == {JsArray(items) : items \in SeqUpTo(Scalars, MaxInnerLen)}
Arrays == {JsArray(items) : items \in SeqUpTo(Scalars \cup InnerArrays, MaxArrayLen)}

DigitChars == <<"0", "1", "2", "3", "4", "5", "6", "7", "8", "9">>

\* Number.prototype.toString() of an integer: its decimal digits, with a sign
RECURSIVE NatToString(_)
NatToString(n) ==
  IF n < 10
  THEN <<DigitChars[n + 1]>>
  ELSE NatToString(n \div 10) \o <<DigitChars[(n % 10) + 1]>>

Number_toString(n) == IF n < 0 THEN <<"-">> \o NatToString(-n) ELSE NatToString(n)

\* String.replace(/\\/g, '\\\\').replace(/"/g, '\\"')
RECURSIVE Escape(_)
Escape(str) ==
  IF str = <<>>
  THEN <<>>
  ELSE (CASE Head(str) = "\\" -> <<"\\", "\\">>
          [] Head(str) = "\"" -> <<"\\", "\"">>
          [] OTHER -> <<Head(str)>>) \o Escape(Tail(str))

\* escapeElement returning the escaped text without the quotes
EscapeElement_Unquoted(elementRepresentation) == Escape(elementRepresentation)

\* escapeElement(elementRepresentation)
EscapeElement(elementRepresentation) ==
  <<"\"">> \o Escape(elementRepresentation) \o <<"\"">>

RECURSIVE PrepareValue(_), ArrayString(_), ArrayStringLoop(_, _, _)

\* the for loop of arrayString, from element i on
ArrayStringLoop(val, i, result) ==
  IF i > Len(val)
  THEN result
  ELSE LET sep == IF i > 1 THEN result \o <<",">> ELSE result
           item == CASE val[i].type = "null" -> <<"N", "U", "L", "L">>
                     [] val[i].type = "array" -> ArrayString(val[i].items)
                     [] OTHER -> EscapeElement(PrepareValue(val[i]).text)
       IN ArrayStringLoop(val, i + 1, sep \o item)

\* arrayString(val)
ArrayString(val) == ArrayStringLoop(val, 1, <<"{">>) \o <<"}">>

\* prepareValue(value): null for null and undefined, else a string
PrepareValue(value) ==
  CASE value.type = "null" -> [null |-> TRUE, text |-> <<>>]
    [] value.type = "array" -> [null |-> FALSE, text |-> ArrayString(value.items)]
    [] OTHER -> [null |-> FALSE, text |-> Number_toString(value.v)]

\* no parameter has been prepared
NothingPrepared == [value |-> JsNull, done |-> FALSE, result |-> PrepareValue(JsNull)]

\* new Connection(...): the registry of parsed statements is state.parsedStatements;
\* the object has no property parsedStatements
Connection_new == [defined |-> FALSE, names |-> {}]

\* a connection object passed as config.connection that has an (empty)
\* parsedStatements object of its own
Connection_injected == [defined |-> TRUE, names |-> {}]

\* new Client(config): constructor; no backend yet
InitSession(config) ==
  /\ stateParsedStatements = {}
  /\ parsedStatements = IF config.connection = "injected"
                        THEN Connection_injected ELSE Connection_new
  /\ connectionParameters = NormalizeConnectionParameters(config)
  /\ connTimer = "none"
  /\ conEnding = FALSE
  /\ terminateSent = FALSE
  /\ pgpass = "none"
  /\ pwSent = FALSE
  /\ notices = <<>>
  /\ sslState = "off"
  /\ sent = <<>>
  /\ ending = FALSE
  /\ ended = FALSE
  /\ connecting = FALSE
  /\ connected = FALSE
  /\ connectionError = FALSE
  /\ queryable = TRUE
  /\ readyForQuery = FALSE
  /\ hasExecuted = FALSE
  /\ activeQuery = NoQuery
  /\ queryQueue = <<>>
  /\ connectionCallback = NoCallback
  /\ stateConnecting = FALSE
  /\ stream = "init"
  /\ ticks = <<>>
  /\ qcfg = <<>>
  /\ qcb = <<>>
  /\ timer = <<>>
  /\ completions = <<>>
  /\ submitLog = <<>>
  /\ wire = <<>>
  /\ cbLog = <<>>
  /\ nConnects = 0
  /\ endCalls = <<>>
  /\ errorEvents = 0
  /\ connectEvents = 0
  /\ cancelCon = "idle"
  /\ cancelWire = <<>>
  /\ processID = NoKey
  /\ removed = {}
  /\ crashed = FALSE
  /\ srv = "off"
  /\ srvQ = "exec"
  /\ mode = "idle"

\* a new Client, no query parameter prepared
InitClient(config) ==
  /\ InitSession(config)
  /\ prepared = NothingPrepared

\* a client with a password string and no connection timeout
Init ==
  /\ InitClient([connectionTimeoutMillis |-> 0, ssl |-> FALSE, connection |-> "default", password |-> "string"])
  /\ srvKey = 1

(***************************************************************************)
(* Helpers                                                                 *)
(***************************************************************************)

\* process.nextTick(callback)
NextTick(s, kind, q, err) ==
  [s EXCEPT !.ticks = Append(@, [kind |-> kind, q |-> q, err |-> err])]

\* the caller's own callback of query q (queryCallback; or the promise's resolve / reject)
QueryCallback(s, q, res) ==
  [s EXCEPT !.completions = Append(@, [q |-> q, res |-> res])]

\* query.callback(err, res): the caller's callback, the wrapper that first
\* clears the read timeout, or the no-op installed when the timeout fired
InvokeCallback(s, q, res) ==
  CASE s.qcb[q] = "noop" -> s
    [] s.qcb[q] = "wrapped" -> QueryCallback([s EXCEPT !.timer[q] = "cleared"], q, res)
    [] OTHER -> QueryCallback(s, q, res)

\* Query.handleError(err, connection): fails the query through its callback
Query_handleError(s, q, err) == InvokeCallback(s, q, err)

\* Query.handleReadyForQuery(connection): completes the query through its callback
Query_handleReadyForQuery(s, q) == InvokeCallback(s, q, "ok")

\* Connection.query / parse / bind / execute / sync: stream.write of the query's
\* messages; a write to a stream that is not open reaches no backend
Connection_write(s, q) ==
  IF s.stream = "open" THEN [s EXCEPT !.wire = Append(@, q)] ELSE s

\* Query.submit(connection): returns an error and writes nothing when the query
\* cannot be prepared, else writes the query's messages and returns nothing
Query_submit(s, q) ==
  IF s.qcfg[q].bad THEN s ELSE Connection_write(s, q)

\* this.emit('error', err) on the Client
EmitError(s) == [s EXCEPT !.errorEvents = @ + 1]

\* an invocation of the callback passed to _connect by connect() call c
ConnectCallback(s, c, res) ==
  [s EXCEPT !.cbLog = Append(@, [c |-> c, res |-> res])]

\* the index of q in the queue, 0 when absent (Array.indexOf is -1)
IndexOf(queue, q) ==
  IF \E i \in 1..Len(queue) : queue[i] = q
  THEN CHOOSE i \in 1..Len(queue) : queue[i] = q /\ \A j \in 1..(i - 1) : queue[j] # q
  ELSE 0

\* Array.splice(index, 1)
Splice(queue, i) ==
  [j \in 1..(Len(queue) - 1) |-> IF j < i THEN queue[j] ELSE queue[j + 1]]

(***************************************************************************)
(* Client: handlers                                                        *)
(***************************************************************************)

\* Client._errorAllQueries(err)
ErrorAllQueries(s, err) ==
  LET s1 == IF s.activeQuery # NoQuery
            THEN [NextTick(s, "handleError", s.activeQuery, err) EXCEPT !.activeQuery = NoQuery]
            ELSE s
      queued == [i \in 1..Len(s1.queryQueue) |->
                   [kind |-> "handleError", q |-> s1.queryQueue[i], err |-> err]]
  IN [s1 EXCEPT !.ticks = @ \o queued, !.queryQueue = <<>>]

\* _pulseQueryQueue without the test of readyForQuery
PulseQueryQueue_NoReadyTest(s) ==
  IF s.queryQueue # <<>>
  THEN LET q == Head(s.queryQueue)
           s1 == [s EXCEPT !.activeQuery = q, !.queryQueue = Tail(@),
                           !.readyForQuery = FALSE, !.hasExecuted = TRUE,
                           !.submitLog = Append(@, q)]
           s2 == Query_submit(s1, q)
       IN IF s.qcfg[q].bad THEN NextTick(s2, "submitError", NoQuery, "submitError") ELSE s2
  ELSE [s EXCEPT !.activeQuery = NoQuery]

\* Client._pulseQueryQueue()
PulseQueryQueue(s) ==
  IF s.readyForQuery
  THEN IF s.queryQueue # <<>>
       THEN LET q == Head(s.queryQueue)
                s1 == [s EXCEPT !.activeQuery = q, !.queryQueue = Tail(@),
                                !.readyForQuery = FALSE, !.hasExecuted = TRUE,
                                !.submitLog = Append(@, q)]
                s2 == Query_submit(s1, q)
            IN IF s.qcfg[q].bad THEN NextTick(s2, "submitError", NoQuery, "submitError") ELSE s2
       ELSE [s EXCEPT !.activeQuery = NoQuery]
  ELSE s

\* the nextTick callback without the retry of _pulseQueryQueue
SubmitErrorTick_NoPulse(s) ==
  IF s.activeQuery = NoQuery
  THEN [s EXCEPT !.crashed = TRUE]
  ELSE [Query_handleError(s, s.activeQuery, "submitError") EXCEPT !.readyForQuery = TRUE]

\* the nextTick callback of _pulseQueryQueue after submit returned an error:
\* it reads this.activeQuery when it runs
SubmitErrorTick(s) ==
  IF s.activeQuery = NoQuery
  THEN [s EXCEPT !.crashed = TRUE]
  ELSE PulseQueryQueue([Query_handleError(s, s.activeQuery, "submitError")
                          EXCEPT !.readyForQuery = TRUE])

\* clearTimeout(this.connectionTimeoutHandle)
ClearTimeout(s) ==
  [s EXCEPT !.connTimer = IF @ = "armed" THEN "cleared" ELSE @]

\* Client._handleErrorWhileConnecting(err)
HandleErrorWhileConnecting(s, err) ==
  IF s.connectionError
  THEN s
  ELSE LET s1 == ClearTimeout([s EXCEPT !.connectionError = TRUE])
       IN IF s1.connectionCallback # NoCallback
          THEN ConnectCallback(s1, s1.connectionCallback, err)
          ELSE EmitError(s1)

\* _handleErrorEvent without this._queryable = false
HandleErrorEvent_StayQueryable(s, err) ==
  IF s.connecting
  THEN HandleErrorWhileConnecting(s, err)
  ELSE EmitError(ErrorAllQueries(s, err))

\* Client._handleErrorEvent(err)
HandleErrorEvent(s, err) ==
  IF s.connecting
  THEN HandleErrorWhileConnecting(s, err)
  ELSE EmitError(ErrorAllQueries([s EXCEPT !.queryable = FALSE], err))

\* _handleErrorMessage treating every ErrorResponse as a connection error
HandleErrorMessage_FailAll(s) ==
  IF s.connecting
  THEN HandleErrorWhileConnecting(s, "server")
  ELSE HandleErrorEvent(s, "server")

\* _handleErrorMessage making the session ready when it fails the active query
HandleErrorMessage_Ready(s) ==
  IF s.connecting
  THEN HandleErrorWhileConnecting(s, "server")
  ELSE IF s.activeQuery = NoQuery
       THEN HandleErrorEvent(s, "server")
       ELSE Query_handleError([s EXCEPT !.activeQuery = NoQuery, !.readyForQuery = TRUE],
                              s.activeQuery, "server")

\* Client._handleErrorMessage(msg)
HandleErrorMessage(s) ==
  IF s.connecting
  THEN HandleErrorWhileConnecting(s, "server")
  ELSE IF s.activeQuery = NoQuery
       THEN HandleErrorEvent(s, "server")
       ELSE Query_handleError([s EXCEPT !.activeQuery = NoQuery], s.activeQuery, "server")

\* _handleReadyForQuery without clearTimeout(this.connectionTimeoutHandle)
HandleReadyForQuery_NoClear(s) ==
  LET s1 == IF s.connecting
            THEN LET c1 == [s EXCEPT !.connecting = FALSE, !.connected = TRUE]
                     c2 == IF c1.connectionCallback # NoCallback
                           THEN [ConnectCallback(c1, c1.connectionCallback, "ok")
                                   EXCEPT !.connectionCallback = NoCallback]
                           ELSE c1
                 IN [c2 EXCEPT !.connectEvents = @ + 1]
            ELSE s
      aq == s1.activeQuery
      s2 == [s1 EXCEPT !.activeQuery = NoQuery, !.readyForQuery = TRUE]
      s3 == IF aq # NoQuery THEN Query_handleReadyForQuery(s2, aq) ELSE s2
  IN PulseQueryQueue(s3)

\* Client._handleReadyForQuery(msg)
HandleReadyForQuery(s) ==
  LET s1 == IF s.connecting
            THEN LET c1 == ClearTimeout([s EXCEPT !.connecting = FALSE, !.connected = TRUE])
                     c2 == IF c1.connectionCallback # NoCallback
                           THEN [ConnectCallback(c1, c1.connectionCallback, "ok")
                                   EXCEPT !.connectionCallback = NoCallback]
                           ELSE c1
                 IN [c2 EXCEPT !.connectEvents = @ + 1]
            ELSE s
      aq == s1.activeQuery
      s2 == [s1 EXCEPT !.activeQuery = NoQuery, !.readyForQuery = TRUE]
      s3 == IF aq # NoQuery THEN Query_handleReadyForQuery(s2, aq) ELSE s2
  IN PulseQueryQueue(s3)

\* Client._handleRowDescription, _handleDataRow, _handlePortalSuspended,
\* _handleEmptyQuery, _handleCopyInResponse, _handleCopyData: this.activeQuery.handleX(...)
HandleResultMessage(s) ==
  IF s.activeQuery = NoQuery THEN [s EXCEPT !.crashed = TRUE] ELSE s

\* Client._handleCommandComplete(msg)
HandleCommandComplete(s) ==
  IF s.activeQuery = NoQuery THEN HandleErrorEvent(s, "unexpectedCommandComplete") ELSE s

\* Client._handleParseComplete(): the name of a prepared statement is stored
\* in this.connection.parsedStatements; on a Connection, which has no such
\* property, the assignment throws a TypeError
HandleParseComplete(s) ==
  IF s.activeQuery = NoQuery
  THEN HandleErrorEvent(s, "unexpectedParseComplete")
  ELSE IF s.qcfg[s.activeQuery].name # NoName
       THEN IF s.parsedStatements.defined
            THEN [s EXCEPT !.parsedStatements.names = @ \cup {s.qcfg[s.activeQuery].name}]
            ELSE [s EXCEPT !.crashed = TRUE]
       ELSE s

\* Query.hasBeenParsed(connection): the statement's name is in the registry
Query_hasBeenParsed(s, q) ==
  /\ s.qcfg[q].name # NoName
  /\ s.parsedStatements.defined
  /\ s.qcfg[q].name \in s.parsedStatements.names

\* Connection.password / sendSASLInitialResponseMessage: the client's answer
\* to the authentication request is written
Connection_password(s) == [s EXCEPT !.pwSent = TRUE]

\* Client._checkPgPass(cb) with cb writing the answer: a password function is
\* called from a promise chain, anything else is used as it is
CheckPgPass(s) ==
  IF s.connectionParameters.password = "function"
  THEN [s EXCEPT !.pgpass = "pending"]
  ELSE Connection_password(s)

\* the promise chain storing and using whatever the provider returned
PgPassResolved_NoTypeCheck(s, pass) ==
  CASE pass \in {"string", "nonstring"} ->
         Connection_password(
           [s EXCEPT !.connectionParameters = AssignPassword(@, pass),
                     !.pgpass = "stored"])
    [] pass = "null" ->
         Connection_password(
           [s EXCEPT !.connectionParameters = DeletePassword(@), !.pgpass = "deleted"])
    [] OTHER -> HandleErrorEvent([s EXCEPT !.pgpass = "failed"], "providerError")

\* the promise chain of _checkPgPass: the provider returned a string, null or
\* undefined ("null"), another value ("nonstring"), or threw / rejected ("throw")
PgPassResolved(s, pass) ==
  CASE pass = "string" ->
         Connection_password(
           [s EXCEPT !.connectionParameters = AssignPassword(@, "string"),
                     !.pgpass = "stored"])
    [] pass = "null" ->
         Connection_password(
           [s EXCEPT !.connectionParameters = DeletePassword(@), !.pgpass = "deleted"])
    [] pass = "nonstring" ->
         HandleErrorEvent([s EXCEPT !.pgpass = "failed"], "passwordNotString")
    [] OTHER -> HandleErrorEvent([s EXCEPT !.pgpass = "failed"], "providerError")

\* Client._handleAuthCleartextPassword, _handleAuthMD5Password, _handleAuthSASL
HandleAuthRequest(s) == CheckPgPass(s)

\* _handleNotice handling the message as an ErrorResponse
HandleNotice_AsError(s) == HandleErrorMessage([s EXCEPT !.notices = Append(@, "notice")])

\* Client._handleNotice(msg): this.emit('notice', msg)
HandleNotice(s) == [s EXCEPT !.notices = Append(@, "notice")]

\* Client._handleNotification(msg): this.emit('notification', msg)
HandleNotification(s) == [s EXCEPT !.notices = Append(@, "notification")]

\* Client._handleBackendKeyData(msg)
HandleBackendKeyData(s, key) == [s EXCEPT !.processID = key]

\* Client._handleAuthSASLFinal(msg): sasl.finalizeSession throws when the server
\* signature does not match
HandleAuthSASLFinal(s, valid) ==
  IF valid THEN s ELSE HandleErrorEvent(s, "sasl")

\* the 'end' listener with the error not depending on _ending
HandleEnd_AlwaysUnexpected(s) ==
  LET error == "terminatedUnexpectedly"
      s1 == [ErrorAllQueries(ClearTimeout(s), error) EXCEPT !.ended = TRUE]
      s2 == IF ~s1.ending
            THEN IF s1.connecting /\ ~s1.connectionError
                 THEN IF s1.connectionCallback # NoCallback
                      THEN ConnectCallback(s1, s1.connectionCallback, error)
                      ELSE HandleErrorEvent(s1, error)
                 ELSE IF ~s1.connectionError
                      THEN HandleErrorEvent(s1, error)
                      ELSE s1
            ELSE s1
      s3 == NextTick(s2, "emitEnd", NoQuery, "none")
  IN [s3 EXCEPT !.endCalls = [i \in 1..Len(@) |-> [@[i] EXCEPT !.done = TRUE]]]

\* the con.once('end') listener of Client._connect, with the
\* connection.once('end', resolve) listeners of pending end() calls
HandleEnd(s) ==
  LET error == IF s.ending THEN "terminated" ELSE "terminatedUnexpectedly"
      s1 == [ErrorAllQueries(ClearTimeout(s), error) EXCEPT !.ended = TRUE]
      s2 == IF ~s1.ending
            THEN IF s1.connecting /\ ~s1.connectionError
                 THEN IF s1.connectionCallback # NoCallback
                      THEN ConnectCallback(s1, s1.connectionCallback, error)
                      ELSE HandleErrorEvent(s1, error)
                 ELSE IF ~s1.connectionError
                      THEN HandleErrorEvent(s1, error)
                      ELSE s1
            ELSE s1
      s3 == NextTick(s2, "emitEnd", NoQuery, "none")
  IN [s3 EXCEPT !.endCalls = [i \in 1..Len(@) |-> [@[i] EXCEPT !.done = TRUE]]]

(***************************************************************************)
(* Client: the caller's operations and the read timeout                    *)
(***************************************************************************)

\* Connection.connect(port, host): with ssl the stream's first data is the
\* answer to the SSLRequest, and no message parser is attached yet
Connection_connect(s) ==
  [s EXCEPT !.stateConnecting = TRUE, !.stream = "connecting",
            !.sslState = IF s.connectionParameters.ssl THEN "waiting" ELSE @]

\* a message written to, or an event emitted on, the connection during the
\* handshake; tls: this.stream is the TLS socket
Handshake(s, what) ==
  [s EXCEPT !.sent = Append(@, [what |-> what, tls |-> s.sslState = "tls"])]

\* Connection.requestSsl()
Connection_requestSsl(s) == Handshake(s, "SSLRequest")

\* Connection.startup(config)
Connection_startup(s) == Handshake(s, "StartupMessage")

\* the 'connect' listener writing the StartupMessage after the SSLRequest
Client_onConnect_StartupToo(s) ==
  IF s.connectionParameters.ssl
  THEN Connection_startup(Connection_requestSsl(s))
  ELSE Connection_startup(s)

\* the con.on('connect') listener of Client._connect
Client_onConnect(s) ==
  IF s.connectionParameters.ssl
  THEN Connection_requestSsl(s)
  ELSE Connection_startup(s)

\* the con.on('sslconnect') listener of Client._connect
Client_onSslConnect(s) == Connection_startup(s)

\* the stream.once('connect') listener of Connection.connect: this.emit('connect')
Stream_onConnect(s) == Client_onConnect([s EXCEPT !.stream = "open"])

\* this.connection._connecting as read by Client.end: Connection keeps its flag
\* in this.state.connecting and never assigns _connecting, which stays undefined
Connection_connecting(s) == FALSE

\* stream.destroy()
Stream_destroy(s) ==
  [s EXCEPT !.stream = IF @ \in {"connecting", "open", "halfclosed"} THEN "destroyed" ELSE @]

\* stream.destroy(error): the stream will emit 'error', then 'close'
Stream_destroyError(s) ==
  [s EXCEPT !.stream = IF @ \in {"connecting", "open", "halfclosed"} THEN "destroyedErr" ELSE @]

\* the connectionTimeoutHandle callback of Client._connect
ConnectionTimeoutExpired(s) ==
  Stream_destroyError([s EXCEPT !.connTimer = "fired", !.conEnding = TRUE])

\* stream.end()
Stream_end(s) ==
  [s EXCEPT !.stream = IF @ \in {"connecting", "open"} THEN "halfclosed" ELSE @]

\* stream.writable
Stream_writable(s) == s.stream \in {"init", "connecting", "open"}

\* Connection.end(): it reads this._connecting as well; Terminate is written,
\* and the stream ended from the write's callback, only if that flag is set
\* and the stream writable; else the stream is ended at once
Connection_end(s) ==
  LET s1 == [s EXCEPT !.conEnding = TRUE]
  IN IF ~Connection_connecting(s1) \/ ~Stream_writable(s1)
     THEN Stream_end(s1)
     ELSE Stream_end([s1 EXCEPT !.terminateSent = TRUE])

\* the listener going on with the TLS upgrade whatever the server answered
Connection_onSSLResponse_AlwaysUpgrade(s, responseCode, tlsOk) ==
  IF tlsOk
  THEN Client_onSslConnect(Handshake([s EXCEPT !.sslState = "tls"], "sslconnect"))
  ELSE HandleErrorEvent([s EXCEPT !.sslState = "failed"], "tls")

\* the stream.once('data') listener of Connection.connect: 'S' upgrades the
\* stream with tls.connect (which can throw), attaches the parser and emits
\* 'sslconnect'; 'N' and any other byte end the stream and emit 'error'
Connection_onSSLResponse(s, responseCode, tlsOk) ==
  CASE responseCode = "S" ->
         IF tlsOk
         THEN Client_onSslConnect(Handshake([s EXCEPT !.sslState = "tls"], "sslconnect"))
         ELSE HandleErrorEvent([s EXCEPT !.sslState = "failed"], "tls")
    [] responseCode = "N" ->
         HandleErrorEvent(Stream_end([s EXCEPT !.sslState = "refused"]), "sslUnsupported")
    [] OTHER ->
         HandleErrorEvent(Stream_end([s EXCEPT !.sslState = "refused"]), "sslNegotiation")

\* this.state.ending as read by reportStreamError: it is initialised to false
\* and never assigned (end(), sync() and the connection timeout set _ending)
Connection_stateEnding(s) == FALSE

\* the codes of the socket errors that report a disconnection
DisconnectCodes == {"ECONNRESET", "EPIPE"}

\* reportStreamError of Connection.connect, the stream's 'error' listener;
\* the Client's listener for the Connection's 'error' is _handleErrorEvent
ReportStreamError(s, error) ==
  IF Connection_stateEnding(s) /\ error \in DisconnectCodes
  THEN s
  ELSE HandleErrorEvent(s, error)

\* Client._connect(callback), for the c-th connect() call
Client_connect(s) ==
  LET c == s.nConnects + 1
      s1 == [s EXCEPT !.nConnects = c, !.connectionCallback = c]
  IN IF s.connecting \/ s.connected
     THEN NextTick(s1, "connectCallback", c, "alreadyConnected")
     ELSE Connection_connect(
            [s1 EXCEPT !.connecting = TRUE,
                       !.connTimer = IF s.connectionParameters.connectionTimeoutMillis > 0
                                     THEN "armed" ELSE @])

\* the readTimeoutTimer callback leaving query.callback as it is
ReadTimeoutExpired_KeepCallback(s, q) ==
  LET s1 == NextTick(s, "handleError", q, "timeout")
      s2 == QueryCallback(s1, q, "timeout")
      s3 == [s2 EXCEPT !.timer[q] = "fired"]
      index == IndexOf(s3.queryQueue, q)
      s4 == IF index > 0
            THEN [s3 EXCEPT !.queryQueue = Splice(@, index),
                            !.removed = @ \cup {[q |-> q, by |-> "timeout"]}]
            ELSE s3
  IN PulseQueryQueue(s4)

\* the readTimeoutTimer callback leaving the query in the queue
ReadTimeoutExpired_NoSplice(s, q) ==
  LET s1 == NextTick(s, "handleError", q, "timeout")
      s2 == QueryCallback(s1, q, "timeout")
      s3 == [s2 EXCEPT !.qcb[q] = "noop", !.timer[q] = "fired"]
  IN PulseQueryQueue(s3)

\* the readTimeoutTimer callback detaching the query that timed out while active
ReadTimeoutExpired_Detach(s, q) ==
  LET s1 == NextTick(s, "handleError", q, "timeout")
      s2 == QueryCallback(s1, q, "timeout")
      s3 == [s2 EXCEPT !.qcb[q] = "noop", !.timer[q] = "fired",
                       !.activeQuery = IF @ = q THEN NoQuery ELSE @]
      index == IndexOf(s3.queryQueue, q)
      s4 == IF index > 0
            THEN [s3 EXCEPT !.queryQueue = Splice(@, index),
                            !.removed = @ \cup {[q |-> q, by |-> "timeout"]}]
            ELSE s3
  IN PulseQueryQueue(s4)

\* the readTimeoutTimer callback of Client.query
ReadTimeoutExpired(s, q) ==
  LET s1 == NextTick(s, "handleError", q, "timeout")
      s2 == QueryCallback(s1, q, "timeout")
      s3 == [s2 EXCEPT !.qcb[q] = "noop", !.timer[q] = "fired"]
      index == IndexOf(s3.queryQueue, q)
      s4 == IF index > 0
            THEN [s3 EXCEPT !.queryQueue = Splice(@, index),
                            !.removed = @ \cup {[q |-> q, by |-> "timeout"]}]
            ELSE s3
  IN PulseQueryQueue(s4)

\* query() with queryQueue.unshift(query) in place of push
Client_query_Unshift(s, timeout, bad) ==
  LET q == Len(s.qcfg) + 1
      s1 == [s EXCEPT !.qcfg = Append(@, [timeout |-> timeout, bad |-> bad, name |-> NoName]),
                      !.qcb = Append(@, IF timeout THEN "wrapped" ELSE "orig"),
                      !.timer = Append(@, IF timeout THEN "armed" ELSE "none")]
  IN IF ~s1.queryable
     THEN NextTick(s1, "handleError", q, "notQueryable")
     ELSE IF s1.ending
          THEN NextTick(s1, "handleError", q, "closed")
          ELSE PulseQueryQueue([s1 EXCEPT !.queryQueue = <<q>> \o @])

\* query() without the test of _ending
Client_query_NoEndingTest(s, timeout, bad) ==
  LET q == Len(s.qcfg) + 1
      s1 == [s EXCEPT !.qcfg = Append(@, [timeout |-> timeout, bad |-> bad, name |-> NoName]),
                      !.qcb = Append(@, IF timeout THEN "wrapped" ELSE "orig"),
                      !.timer = Append(@, IF timeout THEN "armed" ELSE "none")]
  IN IF ~s1.queryable
     THEN NextTick(s1, "handleError", q, "notQueryable")
     ELSE PulseQueryQueue([s1 EXCEPT !.queryQueue = Append(@, q)])

\* Client.query(config, values): the new query gets the next id
Client_queryNamed(s, timeout, bad, name) ==
  LET q == Len(s.qcfg) + 1
      s1 == [s EXCEPT !.qcfg = Append(@, [timeout |-> timeout, bad |-> bad, name |-> name]),
                      !.qcb = Append(@, IF timeout THEN "wrapped" ELSE "orig"),
                      !.timer = Append(@, IF timeout THEN "armed" ELSE "none")]
  IN IF ~s1.queryable
     THEN NextTick(s1, "handleError", q, "notQueryable")
     ELSE IF s1.ending
          THEN NextTick(s1, "handleError", q, "closed")
          ELSE PulseQueryQueue([s1 EXCEPT !.queryQueue = Append(@, q)])

\* Client.query for a query that is not a prepared statement
Client_query(s, timeout, bad) == Client_queryNamed(s, timeout, bad, NoName)

\* Client.end()
Client_end(s) ==
  LET s1 == [s EXCEPT !.ending = TRUE]
      open == s.stateConnecting /\ ~s.ended
  IN IF ~Connection_connecting(s1) \/ s1.ended
     THEN [s1 EXCEPT !.endCalls = Append(@, [open |-> open, done |-> TRUE])]
     ELSE LET s2 == IF s1.activeQuery # NoQuery \/ ~s1.queryable
                    THEN Stream_destroy(s1)
                    ELSE Connection_end(s1)
          IN [s2 EXCEPT !.endCalls = Append(@, [open |-> open, done |-> FALSE])]

\* Connection.cancel(processID, secretKey) on the cancelling client's connection
Connection_cancel(s, key) == [s EXCEPT !.cancelWire = Append(@, key)]

\* the listener writing a CancelRequest with a fixed pair
CancelOnConnect_FixedKey(s) == Connection_cancel([s EXCEPT !.cancelCon = "sent"], 1)

\* the con.on('connect') listener of Client.cancel: it reads the target's
\* processID and secretKey when the cancelling client's stream has connected
CancelOnConnect(s) == Connection_cancel([s EXCEPT !.cancelCon = "sent"], s.processID)

\* cancel() removing the head of the queue whatever the query
Client_cancel_RemovesHead(s, q) ==
  IF s.activeQuery = q
  THEN [s EXCEPT !.cancelCon = "connecting"]
  ELSE IF IndexOf(s.queryQueue, q) # 0
       THEN [s EXCEPT !.queryQueue = Tail(@),
                      !.removed = @ \cup {[q |-> q, by |-> "cancel"]}]
       ELSE s

\* Client.cancel(client, query), called on a second client for query q of this one
Client_cancel(s, q) ==
  IF s.activeQuery = q
  THEN [s EXCEPT !.cancelCon = "connecting"]
  ELSE IF IndexOf(s.queryQueue, q) # 0
       THEN [s EXCEPT !.queryQueue = Splice(@, IndexOf(@, q)),
                      !.removed = @ \cup {[q |-> q, by |-> "cancel"]}]
       ELSE s

\* one process.nextTick callback
RunTickBody(s, t) ==
  CASE t.kind = "handleError" -> Query_handleError(s, t.q, t.err)
    [] t.kind = "submitError" -> SubmitErrorTick(s)
    [] t.kind = "connectCallback" -> ConnectCallback(s, t.q, t.err)
    [] OTHER -> s

(***************************************************************************)
(* Actions                                                                 *)
(***************************************************************************)

ApiOK == ~crashed /\ mode \in {"idle", "api"}
MsgOK == ~crashed /\ mode \in {"idle", "data"} /\ stream = "open"
EventOK == ~crashed /\ mode = "idle"

Connect ==
  /\ ApiOK
  /\ nConnects < MaxConnects
  /\ Commit(Client_connect(Cur), "api")
  /\ UNCHANGED <<srv, srvQ>>

Query(timeout, bad) ==
  /\ ApiOK
  /\ Len(qcfg) < MaxQueries
  /\ Commit(Client_query(Cur, timeout, bad), "api")
  /\ srvQ' = IF wire = <<>> THEN "exec" ELSE srvQ
  /\ UNCHANGED srv

\* query() with a prepared statement's name, or with none
PreparedQuery(name) ==
  /\ ApiOK
  /\ Len(qcfg) < MaxQueries
  /\ Commit(Client_queryNamed(Cur, FALSE, FALSE, name), "api")
  /\ srvQ' = IF wire = <<>> THEN "exec" ELSE srvQ
  /\ UNCHANGED srv

End ==
  /\ ApiOK
  /\ Len(endCalls) < MaxEnds
  /\ Commit(Client_end(Cur), "api")
  /\ UNCHANGED <<srv, srvQ>>

Cancel(q) ==
  /\ ApiOK
  /\ \/ activeQuery = q /\ cancelCon = "idle"
     \/ activeQuery # q /\ IndexOf(queryQueue, q) # 0
  /\ Commit(Client_cancel(Cur, q), "api")
  /\ UNCHANGED <<srv, srvQ>>

\* the cancelling client's stream connects: Connection.cancel(processID, secretKey)
CancelConnect ==
  /\ EventOK
  /\ cancelCon = "connecting"
  /\ Commit(CancelOnConnect(Cur), "drain")
  /\ UNCHANGED <<srv, srvQ>>

ReadTimeout(q) ==
  /\ EventOK
  /\ q \in DOMAIN timer
  /\ timer[q] = "armed"
  /\ Commit(ReadTimeoutExpired(Cur, q), "drain")
  /\ srvQ' = IF wire = <<>> THEN "exec" ELSE srvQ
  /\ UNCHANGED srv

RunTick ==
  /\ ~crashed
  /\ ticks # <<>>
  /\ Commit(RunTickBody([Cur EXCEPT !.ticks = Tail(@)], Head(ticks)), "drain")
  /\ srvQ' = IF wire = <<>> THEN "exec" ELSE srvQ
  /\ UNCHANGED srv

\* stream 'connect': Connection emits 'connect', the Client writes the
\* StartupMessage or, with ssl, the SSLRequest
StreamConnect ==
  /\ EventOK
  /\ stream = "connecting"
  /\ Commit(Stream_onConnect(Cur), "drain")
  /\ srv' = IF connectionParameters.ssl THEN "ssl" ELSE "auth"
  /\ UNCHANGED srvQ

\* the server's one-byte answer to the SSLRequest: after 'S' it expects the
\* TLS handshake and then the StartupMessage; after another answer the
\* client ends the stream
SSLResponse(responseCode, tlsOk) ==
  /\ EventOK
  /\ stream = "open"
  /\ srv = "ssl"
  /\ sslState = "waiting"
  /\ Commit(Connection_onSSLResponse(Cur, responseCode, tlsOk), "drain")
  /\ srv' = CASE responseCode = "S" /\ tlsOk -> "auth"
             [] responseCode = "S" -> "ssl"
             [] OTHER -> "gone"
  /\ UNCHANGED srvQ

\* the connection timeout elapses
ConnectTimeout ==
  /\ EventOK
  /\ connTimer = "armed"
  /\ Commit(ConnectionTimeoutExpired(Cur), "drain")
  /\ UNCHANGED <<srv, srvQ>>

\* stream 'error' (a network error, or the error passed to destroy):
\* reportStreamError of Connection.connect emits 'error'
StreamError ==
  /\ EventOK
  /\ stream \in {"connecting", "open", "destroyedErr"}
  /\ Commit(ReportStreamError([Cur EXCEPT !.stream = "destroyed"],
                               IF stream = "destroyedErr" THEN "timeoutExpired" ELSE "stream"),
            "drain")
  /\ srv' = IF srv = "off" THEN "off" ELSE "gone"
  /\ UNCHANGED srvQ

\* stream 'error' with a disconnection code: the peer reset the connection,
\* or closed it while the client was writing; this also happens to a stream
\* that the client has half-closed
StreamReset(code) ==
  /\ EventOK
  /\ stream \in {"connecting", "open", "halfclosed"}
  /\ Commit(ReportStreamError([Cur EXCEPT !.stream = "destroyed"], code), "drain")
  /\ srv' = IF srv = "off" THEN "off" ELSE "gone"
  /\ UNCHANGED srvQ

\* the owner of the connection calls Connection.end()
ConnectionEnd ==
  /\ ApiOK
  /\ stream \in {"connecting", "open"}
  /\ ~conEnding
  /\ Commit(Connection_end(Cur), "api")
  /\ UNCHANGED <<srv, srvQ>>

\* the backend goes away without a message (it was killed, the peer closed):
\* the stream then closes without an 'error'
BackendExit ==
  /\ EventOK
  /\ stream = "open"
  /\ srv # "gone"
  /\ Commit(Cur, "drain")
  /\ srv' = "gone"
  /\ UNCHANGED srvQ

\* stream 'close': Connection emits 'end'
StreamClose ==
  /\ EventOK
  /\ \/ stream \in {"destroyed", "halfclosed"}
     \/ stream = "open" /\ srv = "gone"
  /\ Commit(HandleEnd([Cur EXCEPT !.stream = "closed"]), "drain")
  /\ srv' = IF srv = "off" THEN "off" ELSE "gone"
  /\ UNCHANGED srvQ

\* the backend has the startup message, and the answer to its authentication
\* request if it made one
AuthPending ==
  \/ srv = "auth"
  \/ srv = "pwwait" /\ pwSent

\* AuthenticationCleartextPassword, AuthenticationMD5Password, AuthenticationSASL:
\* the backend asks once and waits for the answer
AuthenticationRequest ==
  /\ MsgOK
  /\ srv = "auth"
  /\ Commit(HandleAuthRequest(Cur), "data")
  /\ srv' = "pwwait"
  /\ UNCHANGED srvQ

\* the password function has returned, or its promise has settled
PgPassResolve(pass) ==
  /\ EventOK
  /\ pgpass = "pending"
  /\ Commit(PgPassResolved(Cur, pass), "drain")
  /\ UNCHANGED <<srv, srvQ>>

\* AuthenticationOk: the Client has no listener for it
AuthenticationOk ==
  /\ MsgOK
  /\ AuthPending \/ srv = "sasldone"
  /\ Commit(Cur, "data")
  /\ srv' = "authok"
  /\ UNCHANGED srvQ

AuthSASLFinal(valid) ==
  /\ MsgOK
  /\ AuthPending
  /\ Commit(HandleAuthSASLFinal(Cur, valid), "data")
  /\ srv' = "sasldone"
  /\ UNCHANGED srvQ

BackendKeyData ==
  /\ MsgOK
  /\ srv = "authok"
  /\ Commit(HandleBackendKeyData(Cur, srvKey), "data")
  /\ srv' = "keyed"
  /\ UNCHANGED srvQ

\* ReadyForQuery: at the end of startup, and after each query written to the stream
ReadyForQuery ==
  /\ MsgOK
  /\ \/ srv = "keyed"
     \/ srv = "ready" /\ wire # <<>> /\ srvQ = "done"
  /\ Commit(HandleReadyForQuery([Cur EXCEPT !.wire = IF srv = "keyed" THEN @ ELSE Tail(@)]), "data")
  /\ srv' = "ready"
  /\ srvQ' = "exec"

\* ErrorResponse: fatal (the backend then closes) or the failure of the query in progress
ErrorResponse(fatal) ==
  /\ MsgOK
  /\ IF fatal
     THEN srv \in {"auth", "pwwait", "sasldone", "authok", "keyed", "ready"}
     ELSE srv = "ready" /\ wire # <<>> /\ srvQ \in {"exec", "parsed", "rows"}
  /\ Commit(HandleErrorMessage(Cur), "data")
  /\ srv' = IF fatal THEN "gone" ELSE srv
  /\ srvQ' = IF fatal THEN srvQ ELSE "done"

\* ParseComplete: the answer to the Parse that the submit of a prepared
\* statement not yet in the registry, or of a query with parameters, wrote
ParseComplete ==
  /\ MsgOK
  /\ srv = "ready" /\ wire # <<>> /\ srvQ = "exec"
  /\ ~Query_hasBeenParsed(Cur, Head(wire))
  /\ Commit(HandleParseComplete(Cur), "data")
  /\ srvQ' = "parsed"
  /\ UNCHANGED srv

\* RowDescription, DataRow, EmptyQueryResponse, PortalSuspended, CopyInResponse,
\* CopyData: the first of them, or one more after the others
ResultMessage ==
  /\ MsgOK
  /\ srv = "ready" /\ wire # <<>> /\ srvQ \in {"exec", "parsed", "rows"}
  /\ Commit(HandleResultMessage(Cur), "data")
  /\ srvQ' = "rows"
  /\ UNCHANGED srv

CommandComplete ==
  /\ MsgOK
  /\ srv = "ready" /\ wire # <<>> /\ srvQ \in {"exec", "parsed", "rows"}
  /\ Commit(HandleCommandComplete(Cur), "data")
  /\ srvQ' = "done"
  /\ UNCHANGED srv

\* NoticeResponse: at any time once the backend has the startup message
NoticeResponse ==
  /\ MsgOK
  /\ srv \notin {"off", "gone"}
  /\ Len(notices) < MaxNotices
  /\ Commit(HandleNotice(Cur), "data")
  /\ UNCHANGED <<srv, srvQ>>

\* NotificationResponse: at any time once the backend is ready for queries
NotificationResponse ==
  /\ MsgOK
  /\ srv = "ready"
  /\ Len(notices) < MaxNotices
  /\ Commit(HandleNotification(Cur), "data")
  /\ UNCHANGED <<srv, srvQ>>

Next ==
  \/ Connect
  \/ \E timeout \in BOOLEAN, bad \in BOOLEAN : Query(timeout, bad)
  \/ End
  \/ \E q \in 1..MaxQueries : Cancel(q)
  \/ CancelConnect
  \/ \E q \in 1..MaxQueries : ReadTimeout(q)
  \/ RunTick
  \/ StreamConnect
  \/ StreamError
  \/ BackendExit
  \/ StreamClose
  \/ AuthenticationOk
  \/ \E valid \in BOOLEAN : AuthSASLFinal(valid)
  \/ BackendKeyData
  \/ ReadyForQuery
  \/ \E fatal \in BOOLEAN : ErrorResponse(fatal)
  \/ ResultMessage
  \/ CommandComplete

Spec == Init /\ [][Next]_vars

(***************************************************************************)
(* Cancellation: any backend process, a caller that connects, queries and  *)
(* cancels; no end(), no stream errors, every submit succeeds.             *)
(***************************************************************************)

InitCancel ==
  /\ InitClient([connectionTimeoutMillis |-> 0, ssl |-> FALSE, connection |-> "default", password |-> "string"])
  /\ srvKey \in BackendKeys

NextCancel ==
  \/ Connect
  \/ \E timeout \in BOOLEAN : Query(timeout, FALSE)
  \/ \E q \in 1..MaxQueries : Cancel(q)
  \/ CancelConnect
  \/ \E q \in 1..MaxQueries : ReadTimeout(q)
  \/ RunTick
  \/ StreamConnect
  \/ BackendExit
  \/ StreamClose
  \/ AuthenticationOk
  \/ BackendKeyData
  \/ ReadyForQuery
  \/ ErrorResponse(FALSE)
  \/ ResultMessage
  \/ CommandComplete

SpecCancel == InitCancel /\ [][NextCancel]_vars

(***************************************************************************)
(* Asynchronous messages: the backend sends NoticeResponse and             *)
(* NotificationResponse between the other messages.                        *)
(***************************************************************************)

NextNotice ==
  \/ Connect
  \/ \E bad \in BOOLEAN : Query(FALSE, bad)
  \/ End
  \/ RunTick
  \/ StreamConnect
  \/ StreamError
  \/ BackendExit
  \/ StreamClose
  \/ AuthenticationOk
  \/ \E valid \in BOOLEAN : AuthSASLFinal(valid)
  \/ BackendKeyData
  \/ ReadyForQuery
  \/ \E fatal \in BOOLEAN : ErrorResponse(fatal)
  \/ ResultMessage
  \/ CommandComplete
  \/ NoticeResponse
  \/ NotificationResponse

SpecNotice == Init /\ [][NextNotice]_vars

(***************************************************************************)
(* Connection timeout: a client configured with connectionTimeoutMillis.   *)
(***************************************************************************)

InitTimeout ==
  /\ InitClient([connectionTimeoutMillis |-> 1, ssl |-> FALSE, connection |-> "default", password |-> "string"])
  /\ srvKey = 1

NextTimeout ==
  \/ Connect
  \/ Query(FALSE, FALSE)
  \/ End
  \/ RunTick
  \/ ConnectTimeout
  \/ StreamConnect
  \/ StreamError
  \/ BackendExit
  \/ StreamClose
  \/ AuthenticationOk
  \/ \E valid \in BOOLEAN : AuthSASLFinal(valid)
  \/ BackendKeyData
  \/ ReadyForQuery
  \/ \E fatal \in BOOLEAN : ErrorResponse(fatal)
  \/ ResultMessage
  \/ CommandComplete

SpecTimeout == InitTimeout /\ [][NextTimeout]_vars

(***************************************************************************)
(* Authentication: a client configured with no password, a password string *)
(* or a password function, and a backend that asks for the password.       *)
(***************************************************************************)

PasswordConfigs == {"undefined", "string", "function"}
ProviderResults == {"string", "null", "nonstring", "throw"}

InitAuth ==
  /\ \E pw \in PasswordConfigs :
       InitClient([connectionTimeoutMillis |-> 0, ssl |-> FALSE, connection |-> "default", password |-> pw])
  /\ srvKey = 1

NextAuth ==
  \/ Connect
  \/ Query(FALSE, FALSE)
  \/ End
  \/ RunTick
  \/ StreamConnect
  \/ StreamError
  \/ BackendExit
  \/ StreamClose
  \/ AuthenticationRequest
  \/ \E pass \in ProviderResults : PgPassResolve(pass)
  \/ AuthenticationOk
  \/ \E valid \in BOOLEAN : AuthSASLFinal(valid)
  \/ BackendKeyData
  \/ ReadyForQuery
  \/ \E fatal \in BOOLEAN : ErrorResponse(fatal)
  \/ ResultMessage
  \/ CommandComplete

SpecAuth == InitAuth /\ [][NextAuth]_vars

(***************************************************************************)
(* A caller that makes its queries before it learns that the connect has   *)
(* failed, and none after.                                                 *)
(***************************************************************************)

QueryBeforeFailure(timeout, bad) ==
  /\ ~connectionError
  /\ Query(timeout, bad)

NextEarlyQueries ==
  \/ Connect
  \/ \E timeout \in BOOLEAN, bad \in BOOLEAN : QueryBeforeFailure(timeout, bad)
  \/ End
  \/ \E q \in 1..MaxQueries : ReadTimeout(q)
  \/ RunTick
  \/ StreamConnect
  \/ StreamError
  \/ BackendExit
  \/ StreamClose
  \/ AuthenticationOk
  \/ \E valid \in BOOLEAN : AuthSASLFinal(valid)
  \/ BackendKeyData
  \/ ReadyForQuery
  \/ \E fatal \in BOOLEAN : ErrorResponse(fatal)
  \/ ResultMessage
  \/ CommandComplete

SpecEarlyQueries == Init /\ [][NextEarlyQueries]_vars

(***************************************************************************)
(* SSL negotiation: a client configured with or without ssl, a server that *)
(* accepts or refuses the SSLRequest.                                      *)
(***************************************************************************)

\* the first byte of the server's answer: accepted, refused, an ErrorResponse
SSLResponseCodes == {"S", "N", "E"}

InitSSL ==
  /\ \E ssl \in BOOLEAN :
       InitClient([connectionTimeoutMillis |-> 0, ssl |-> ssl, connection |-> "default", password |-> "string"])
  /\ srvKey = 1

NextSSL ==
  \/ Connect
  \/ Query(FALSE, FALSE)
  \/ End
  \/ RunTick
  \/ StreamConnect
  \/ \E responseCode \in SSLResponseCodes, tlsOk \in BOOLEAN : SSLResponse(responseCode, tlsOk)
  \/ StreamError
  \/ BackendExit
  \/ StreamClose
  \/ AuthenticationOk
  \/ BackendKeyData
  \/ ReadyForQuery
  \/ \E fatal \in BOOLEAN : ErrorResponse(fatal)
  \/ ResultMessage
  \/ CommandComplete

SpecSSL == InitSSL /\ [][NextSSL]_vars

(***************************************************************************)
(* Prepared statements: queries with and without a name, on the Client's   *)
(* own Connection or on a connection object passed in the config.          *)
(***************************************************************************)

InitPrepared ==
  /\ \E con \in {"default", "injected"} :
       InitClient([connectionTimeoutMillis |-> 0, ssl |-> FALSE, connection |-> con,
                   password |-> "string"])
  /\ srvKey = 1

NextPrepared ==
  \/ Connect
  \/ \E name \in StatementNames \cup {NoName} : PreparedQuery(name)
  \/ End
  \/ RunTick
  \/ StreamConnect
  \/ BackendExit
  \/ StreamClose
  \/ AuthenticationOk
  \/ BackendKeyData
  \/ ReadyForQuery
  \/ ParseComplete
  \/ ErrorResponse(FALSE)
  \/ ResultMessage
  \/ CommandComplete

SpecPrepared == InitPrepared /\ [][NextPrepared]_vars

(***************************************************************************)
(* The transport's error policy: a connection with a connection timeout,   *)
(* ended with Connection.end(), on a socket that reports disconnections.   *)
(***************************************************************************)

NextTransport ==
  \/ Connect
  \/ Query(FALSE, FALSE)
  \/ ConnectionEnd
  \/ RunTick
  \/ ConnectTimeout
  \/ StreamConnect
  \/ StreamError
  \/ \E code \in DisconnectCodes : StreamReset(code)
  \/ BackendExit
  \/ StreamClose
  \/ AuthenticationOk
  \/ BackendKeyData
  \/ ReadyForQuery
  \/ \E fatal \in BOOLEAN : ErrorResponse(fatal)
  \/ ResultMessage
  \/ CommandComplete

SpecTransport == InitTimeout /\ [][NextTransport]_vars

(***************************************************************************)
(* Query parameters: prepareValue applied to an array of integers, nulls   *)
(* and nested arrays of them.                                              *)
(***************************************************************************)

InitValues ==
  /\ InitSession([connectionTimeoutMillis |-> 0, ssl |-> FALSE, connection |-> "default",
                  password |-> "string"])
  /\ srvKey = 1
  /\ \E value \in Arrays :
       prepared = [value |-> value, done |-> FALSE, result |-> PrepareValue(JsNull)]

\* prepareValue(value) for a parameter of a query
Prepare ==
  /\ ~prepared.done
  /\ Commit([Cur EXCEPT !.prepared.done = TRUE,
                        !.prepared.result = PrepareValue(prepared.value)], "api")
  /\ UNCHANGED <<srv, srvQ>>

NextValues == Prepare

SpecValues == InitValues /\ [][NextValues]_vars

(***************************************************************************)
(* Properties                                                              *)
(***************************************************************************)

\* C1: at most one query is in flight: a query's messages are written only when
\* every query written before has been answered by its ReadyForQuery, and the
\* session is not ready while a query is in flight.
C1_OneQueryInFlight ==
  /\ Len(wire) <= 1
  /\ wire # <<>> => ~readyForQuery

\* a second query is on the wire, written after the first one was answered
C1_Witness ==
  /\ submitLog = <<1, 2>>
  /\ ~qcfg[1].bad
  /\ wire = <<2>>
  /\ queryQueue = <<>>
  /\ stream = "open"

\* the session is Busy: connected, a query was submitted and readyForQuery is false
Busy == connected /\ ~readyForQuery /\ submitLog # <<>>

\* C2 as stated: on a connected session (the stream open, the backend alive)
\* activeQuery is non-null iff the session is Busy.
C2_ActiveIffBusy ==
  (connected /\ stream = "open" /\ srv = "ready" /\ queryable /\ ~crashed) =>
    ((activeQuery # NoQuery) <=> Busy)

\* C2 as amended: a non-null activeQuery implies Busy, and it is the query
\* submitted last.
C2_ActiveImpliesBusy ==
  activeQuery # NoQuery =>
    /\ ~readyForQuery
    /\ submitLog # <<>>
    /\ submitLog[Len(submitLog)] = activeQuery

\* Busy with an active query whose messages are on the wire
C2_Witness ==
  /\ connected
  /\ activeQuery # NoQuery
  /\ wire = <<activeQuery>>

\* C3 as stated: completions are delivered in the order of the query() calls:
\* when a query completes, every query called before it has completed.
C3_FifoCompletion ==
  \A j \in 1..Len(completions) :
    \A q1 \in 1..(completions[j].q - 1) :
      \E i \in 1..(j - 1) : completions[i].q = q1

\* completions that do not follow the queue: the read timeout of the query
\* fired, or query() refused the query (the client was ending)
OutOfBand == {"timeout", "closed"}

\* C3 as amended: queries are submitted in the order query() enqueued them, and
\* the completions other than read-timeout expiries and refusals by query() are
\* delivered in that order, each query completing at most once.
C3_FifoExceptOutOfBand ==
  /\ \A i, j \in 1..Len(submitLog) : i < j => submitLog[i] < submitLog[j]
  /\ \A i, j \in 1..Len(completions) :
       (i < j /\ completions[i].res \notin OutOfBand /\ completions[j].res \notin OutOfBand)
         => completions[i].q < completions[j].q

\* two queries answered by the backend, in order
C3_Witness ==
  /\ Len(completions) = 2
  /\ completions[1] = [q |-> 1, res |-> "ok"]
  /\ completions[2].q = 2
  /\ completions[2].res \in {"ok", "server"}

\* the elements of a sequence
Range(seq) == {seq[i] : i \in 1..Len(seq)}

\* the step is a query() call made after end()
QueryAfterEnd == Len(qcfg') = Len(qcfg) + 1 /\ ending

\* C4 as stated: a query passed to query() after end() has failed with the
\* client-closed error when query() returns.
C4_FailsWithinCall ==
  [][QueryAfterEnd =>
       \E i \in 1..Len(completions') :
         completions'[i] = [q |-> Len(qcfg'), res |-> "closed"]]_vars

\* query q was refused by query(): its error is queued for the next tick or delivered
Refused(q) ==
  \/ \E i \in 1..Len(ticks) :
       ticks[i].kind = "handleError" /\ ticks[i].q = q /\ ticks[i].err \in {"closed", "notQueryable"}
  \/ \E i \in 1..Len(completions) :
       completions[i].q = q /\ completions[i].res \in {"closed", "notQueryable"}

\* C4 as amended: a query passed to query() after end() is not failed within
\* the call: query() queues its failure for the next tick, with the
\* client-closed error, or with the not-queryable error if the session was
\* already non-queryable; the query is never added to queryQueue nor submitted.
C4_RefusedOnNextTick ==
  /\ [][QueryAfterEnd =>
          /\ ticks' = Append(ticks, [kind |-> "handleError", q |-> Len(qcfg'),
                                     err |-> IF queryable THEN "closed" ELSE "notQueryable"])
          /\ completions' = completions
          /\ queryQueue' = queryQueue
          /\ activeQuery' = activeQuery
          /\ submitLog' = submitLog
          /\ wire' = wire]_vars
  /\ [](\A q \in 1..Len(qcfg) :
          Refused(q) => /\ q \notin Range(queryQueue)
                        /\ q \notin Range(submitLog)
                        /\ q # activeQuery)

\* the client-closed error has been delivered to a query, on a later tick,
\* while an earlier query is still in the queue or active
C4_Witness ==
  /\ ending
  /\ \E i \in 1..Len(completions) : completions[i].res = "closed"
  /\ (queryQueue # <<>> \/ activeQuery # NoQuery)

\* C5: an end() call made while the transport is open completes only after the
\* transport has ended.
C5_EndCompletesAfterTransportEnd ==
  \A i \in 1..Len(endCalls) :
    (endCalls[i].open /\ endCalls[i].done) => stream = "closed"

\* C6: the callback of a connect() call that started the connection is invoked at
\* most once (by the connection error, the transport end or ReadyForQuery).
C6_ConnectSignalledOnce ==
  \A c \in 1..nConnects :
    Cardinality({i \in 1..Len(cbLog) : cbLog[i].c = c /\ cbLog[i].res # "alreadyConnected"}) <= 1

\* C7: after an error during connection the session never becomes Ready: no
\* 'connect' event, _connected stays false, no query is submitted.
C7_FailedNeverReady ==
  connectionError => (~connected /\ connectEvents = 0 /\ submitLog = <<>>)

\* the step handles an ErrorResponse while a query is active on a connected session
ErrorToActiveQuery ==
  /\ \E fatal \in BOOLEAN : ErrorResponse(fatal)
  /\ ~connecting
  /\ activeQuery # NoQuery

\* C8: an ErrorResponse received while a query is active is delivered to that
\* query only: the queue, the pending failures and the queryable flag are
\* unchanged and nothing is submitted; while the session then waits for
\* ReadyForQuery only the ReadyForQuery handler submits a query, and it submits
\* the head of the queue.
C8_ErrorToActiveQueryOnly ==
  /\ [][ErrorToActiveQuery =>
          /\ completions' = IF qcb[activeQuery] = "noop"
                            THEN completions
                            ELSE Append(completions, [q |-> activeQuery, res |-> "server"])
          /\ activeQuery' = NoQuery
          /\ queryQueue' = queryQueue
          /\ ticks' = ticks
          /\ queryable' = queryable
          /\ readyForQuery' = readyForQuery
          /\ submitLog' = submitLog
          /\ wire' = wire]_vars
  /\ [][(connected /\ ~readyForQuery /\ activeQuery = NoQuery /\ submitLog' # submitLog)
          => ReadyForQuery]_vars
  /\ [][(ReadyForQuery /\ queryQueue # <<>>)
          => submitLog' = Append(submitLog, Head(queryQueue))]_vars

\* the first query failed with the server's error, the second was submitted
\* after the ReadyForQuery that followed
C8_Witness ==
  /\ completions = <<[q |-> 1, res |-> "server"]>>
  /\ submitLog = <<1, 2>>
  /\ wire = <<2>>
  /\ activeQuery = 2
  /\ queryable

\* the step handles, on a connected session, a connection 'error' event or an
\* ErrorResponse with no active query
ErrorOutsideQuery ==
  /\ connected
  /\ ~connecting
  /\ \/ StreamError
     \/ activeQuery = NoQuery /\ \E fatal \in BOOLEAN : ErrorResponse(fatal)

\* C9: on a connected session an error outside a query emits 'error' on the
\* Client and makes the session non-queryable for good; every later query() is
\* failed with the not-queryable error on the next tick and is neither
\* enqueued nor submitted.
C9_ErrorOutsideQueryNotQueryable ==
  /\ [][ErrorOutsideQuery => (errorEvents' = errorEvents + 1 /\ ~queryable')]_vars
  /\ [][~queryable => ~queryable']_vars
  /\ [][(~queryable /\ Len(qcfg') = Len(qcfg) + 1) =>
          /\ ticks' = Append(ticks, [kind |-> "handleError", q |-> Len(qcfg'),
                                     err |-> "notQueryable"])
          /\ queryQueue' = queryQueue
          /\ activeQuery' = activeQuery
          /\ submitLog' = submitLog
          /\ wire' = wire]_vars
  /\ [](~queryable => queryQueue = <<>>)

\* a query made after the error has been failed with the not-queryable error
C9_Witness ==
  /\ connected
  /\ ~queryable
  /\ errorEvents > 0
  /\ \E i \in 1..Len(completions) : completions[i].res = "notQueryable"

\* query.handleError(err) queued for the next tick
HandleErrorTick(q, err) == [kind |-> "handleError", q |-> q, err |-> err]

\* C10: when the transport ends, the failure of the active query and then of
\* the queued queries, in queue order, is queued for the next ticks, with
\* 'Connection terminated' after end() and 'Connection terminated
\* unexpectedly' otherwise; the queue is then empty, activeQuery null and the
\* session ended; each tick delivers its error to its query.
C10_TransportEndFailsAll ==
  /\ [][StreamClose =>
          LET err == IF ending THEN "terminated" ELSE "terminatedUnexpectedly"
              active == IF activeQuery # NoQuery
                        THEN <<HandleErrorTick(activeQuery, err)>>
                        ELSE <<>>
              queued == [i \in 1..Len(queryQueue) |-> HandleErrorTick(queryQueue[i], err)]
          IN /\ ticks' = active \o queued \o <<[kind |-> "emitEnd", q |-> NoQuery, err |-> "none"]>>
             /\ queryQueue' = <<>>
             /\ activeQuery' = NoQuery
             /\ ended']_vars
  /\ [][(RunTick /\ Head(ticks).kind = "handleError" /\ qcb[Head(ticks).q] # "noop") =>
          completions' = Append(completions, [q |-> Head(ticks).q, res |-> Head(ticks).err])]_vars

\* the transport ended without end(): the active query, then the queued one, failed
C10_Witness ==
  /\ ended
  /\ ~ending
  /\ submitLog = <<1>>
  /\ completions = <<[q |-> 1, res |-> "terminatedUnexpectedly"],
                     [q |-> 2, res |-> "terminatedUnexpectedly"]>>

\* the step is cancel(client, query) for the target's active query
CancelActive == activeQuery # NoQuery /\ Cancel(activeQuery)

\* C11: cancel(client, query) for the target's active query leaves the
\* target's activeQuery, queryQueue, readyForQuery and queryable flag as they
\* are and opens the canceller's transport, writing nothing yet; the connect
\* event of that transport leaves the target alone as well and writes one
\* CancelRequest, which carries the target's processID and secretKey: the pair
\* the target's backend sent in BackendKeyData.
C11_CancelActiveLeavesTarget ==
  /\ [][CancelActive =>
          /\ activeQuery' = activeQuery
          /\ queryQueue' = queryQueue
          /\ readyForQuery' = readyForQuery
          /\ queryable' = queryable
          /\ cancelCon' = "connecting"
          /\ cancelWire' = cancelWire]_vars
  /\ [][CancelConnect =>
          /\ activeQuery' = activeQuery
          /\ queryQueue' = queryQueue
          /\ readyForQuery' = readyForQuery
          /\ queryable' = queryable
          /\ cancelWire' = Append(cancelWire, processID)]_vars
  /\ [][cancelWire' # cancelWire => CancelConnect]_vars
  /\ [](\A i \in 1..Len(cancelWire) : cancelWire[i] = srvKey /\ cancelWire[i] # NoKey)

\* a CancelRequest with the pair of the second backend process has been written
\* while the cancelled query is still active
C11_Witness ==
  /\ cancelWire = <<2>>
  /\ srvKey = 2
  /\ activeQuery = 1
  /\ wire = <<1>>

\* the queue without query q
Without(queue, q) == SelectSeq(queue, LAMBDA x : x # q)

\* C12: cancel(client, query) for a query still in the target's queryQueue
\* removes exactly that query: the others keep their order, activeQuery and
\* readyForQuery are unchanged, the canceller opens no transport and writes no
\* CancelRequest, nothing is submitted; the removed query is never submitted.
C12_CancelQueuedRemovesIt ==
  /\ [][\A q \in 1..MaxQueries :
          (q # activeQuery /\ Cancel(q)) =>
            /\ queryQueue' = Without(queryQueue, q)
            /\ Len(queryQueue') = Len(queryQueue) - 1
            /\ activeQuery' = activeQuery
            /\ readyForQuery' = readyForQuery
            /\ cancelCon' = cancelCon
            /\ cancelWire' = cancelWire
            /\ submitLog' = submitLog
            /\ wire' = wire]_vars
  /\ [](\A r \in removed :
          r.by = "cancel" => (r.q \notin Range(submitLog) /\ r.q \notin Range(queryQueue)))

\* the first query was cancelled while queued; the second, queued behind it,
\* was then submitted and answered
C12_Witness ==
  /\ [q |-> 1, by |-> "cancel"] \in removed
  /\ submitLog = <<2>>
  /\ completions = <<[q |-> 2, res |-> "ok"]>>

\* C13: when the read timeout of a query expires the query is failed with the
\* query-timeout error, once, and completes in no other way; if it was queued
\* it leaves the queue, the other queued queries keeping their order, and is
\* never submitted; _queryable is unchanged; if it was active it stays active
\* and the session becomes ready only on a ReadyForQuery.
C13_ReadTimeoutFailsQuery ==
  /\ [][\A q \in 1..MaxQueries :
          ReadTimeout(q) =>
            /\ completions' = Append(completions, [q |-> q, res |-> "timeout"])
            /\ queryQueue' = Without(queryQueue, q)
            /\ queryable' = queryable
            /\ submitLog' = submitLog
            /\ activeQuery = q => (activeQuery' = q /\ ~readyForQuery')]_vars
  /\ [][(activeQuery # NoQuery /\ timer[activeQuery] = "fired" /\ readyForQuery')
          => ReadyForQuery]_vars
  /\ [](\A q \in 1..Len(timer) :
          timer[q] = "fired" =>
            /\ Cardinality({i \in 1..Len(completions) : completions[i].q = q}) = 1
            /\ \E i \in 1..Len(completions) : completions[i] = [q |-> q, res |-> "timeout"])
  /\ [](\A r \in removed :
          r.by = "timeout" => (r.q \notin Range(submitLog) /\ r.q \notin Range(queryQueue)))

\* the second query timed out in the queue and the first while active; the
\* ReadyForQuery of the first has arrived
C13_Witness ==
  /\ completions = <<[q |-> 2, res |-> "timeout"], [q |-> 1, res |-> "timeout"]>>
  /\ [q |-> 2, by |-> "timeout"] \in removed
  /\ submitLog = <<1>>
  /\ connected
  /\ readyForQuery
  /\ wire = <<>>

\* C17 as stated: a Busy session becomes ready only while handling a
\* ReadyForQuery message.
C17_ReadyOnlyOnReadyForQuery ==
  [][(Busy /\ readyForQuery') => ReadyForQuery]_vars

\* the step runs the tick queued when the submit of the active query returned an error
SubmitErrorStep == RunTick /\ Head(ticks).kind = "submitError"

\* C17 as amended: readyForQuery changes from false to true only while
\* handling a ReadyForQuery message or on the tick that fails a query whose
\* submit returned an error; an ErrorResponse, a read timeout, a cancel, a
\* connection error or the end of the transport never makes the session ready.
C17_ReadyOnReadyForQueryOrSubmitError ==
  [][(~readyForQuery /\ readyForQuery') => (ReadyForQuery \/ SubmitErrorStep)]_vars

\* the session is ready after a query whose submit failed and a query answered
\* by the backend
C17_Witness ==
  /\ connected
  /\ readyForQuery
  /\ completions = <<[q |-> 1, res |-> "submitError"], [q |-> 2, res |-> "ok"]>>

\* C14: a NoticeResponse or a NotificationResponse, in whatever state the
\* session is, emits its 'notice' / 'notification' event and changes nothing
\* of the query state machine: activeQuery, queryQueue, readyForQuery and the
\* queryable flag are as before, no query completes, fails or is submitted.
C14_NoticesLeaveQueryState ==
  [][(NoticeResponse \/ NotificationResponse) =>
       /\ notices' = Append(notices, IF NoticeResponse THEN "notice" ELSE "notification")
       /\ activeQuery' = activeQuery
       /\ queryQueue' = queryQueue
       /\ readyForQuery' = readyForQuery
       /\ queryable' = queryable
       /\ completions' = completions
       /\ ticks' = ticks
       /\ submitLog' = submitLog
       /\ errorEvents' = errorEvents]_vars

\* a notification was delivered to a session that has a query in progress,
\* after the first rows, and a second query queued
C14_Witness ==
  /\ notices = <<"notification">>
  /\ activeQuery = 1
  /\ queryQueue = <<2>>
  /\ srvQ = "rows"

\* the connect has been signalled as failed or succeeded, or the transport has ended
ConnectSettled ==
  \/ connected
  \/ connectEvents > 0
  \/ connectionError
  \/ errorEvents > 0
  \/ ended
  \/ \E i \in 1..Len(cbLog) : cbLog[i].res # "alreadyConnected"

\* C15: the connection timeout fires at most once, and when it fires it
\* destroys the stream: the timer callback runs only while the session is
\* still connecting, never after the connect succeeded (ReadyForQuery), after
\* a connection error was reported or after the transport ended; once fired
\* or cleared the timer is never armed again.
C15_ConnectionTimeoutOnce ==
  /\ [][ConnectTimeout =>
          /\ connecting
          /\ ~ConnectSettled
          /\ stream \in {"connecting", "open"}
          /\ stream' = "destroyedErr"
          /\ connTimer' = "fired"]_vars
  /\ [][(connTimer \in {"fired", "cleared"}) => connTimer' = connTimer]_vars
  /\ [](connTimer = "armed" => (connecting /\ ~ConnectSettled))

\* the timeout fired while the backend was authenticating; the connect call
\* failed with the timeout error and the transport has ended
C15_Witness ==
  /\ connTimer = "fired"
  /\ srv = "gone"
  /\ cbLog = <<[c |-> 1, res |-> "timeoutExpired"]>>
  /\ ended

EndIdle == End /\ connected /\ queryable /\ activeQuery = NoQuery /\ stream = "open"

\* C18: end() on a connected, idle session marks the session ending, writes
\* Terminate and half-closes the stream; the stream is never half-closed
\* without Terminate having been written.
C18_EndIdleWritesTerminate ==
  /\ [][EndIdle => (ending' /\ terminateSent' /\ stream' = "halfclosed")]_vars
  /\ [](stream = "halfclosed" => terminateSent)

\* the step is end() on a connected session with an active query, or non-queryable
EndBusy == End /\ connected /\ (activeQuery # NoQuery \/ ~queryable) /\ stream = "open"

\* C19: end() on a connected session that has an active query, or is
\* non-queryable, destroys the stream.
C19_EndBusyDestroysStream ==
  [][EndBusy => stream' = "destroyed"]_vars

\* the errors of a transport that has ended
Terminated == {"terminated", "terminatedUnexpectedly"}

\* C20, for a caller that makes no query after the connect has failed: once
\* an error during connection has failed the connect, no query is submitted,
\* and the queries that were enqueued complete only with a
\* connection-terminated error (or by their own read timeout).
C20_QueuedFailAfterConnectError ==
  connectionError =>
    /\ submitLog = <<>>
    /\ \A i \in 1..Len(completions) :
         completions[i].res \in Terminated \cup {"timeout", "closed", "notQueryable"}

\* the step handles an answer to the SSLRequest other than 'S'
SSLRefused(responseCode) ==
  /\ responseCode # "S"
  /\ \E tlsOk \in BOOLEAN : SSLResponse(responseCode, tlsOk)

\* the error the Connection emits for an answer other than 'S'
SSLError(responseCode) ==
  IF responseCode = "N" THEN "sslUnsupported" ELSE "sslNegotiation"

\* C21: with ssl, when the server answers the SSLRequest with 'N' or any byte
\* other than 'S', the Connection ends the stream and emits an error, which
\* fails the connect; the stream is not upgraded to TLS, no 'sslconnect' is
\* emitted and no StartupMessage is written, then or later: the SSLRequest
\* stays the only message of the session, which never becomes connected.
C21_SSLRefusedFails ==
  /\ [][\A responseCode \in SSLResponseCodes :
          SSLRefused(responseCode) =>
            /\ stream' = "halfclosed"
            /\ sslState' = "refused"
            /\ sent' = sent
            /\ connectionError'
            /\ cbLog' = Append(cbLog, [c |-> connectionCallback, res |-> SSLError(responseCode)])]_vars
  /\ [](sslState = "refused" =>
          /\ sent = <<[what |-> "SSLRequest", tls |-> FALSE]>>
          /\ stream \in {"halfclosed", "closed"}
          /\ ~connected
          /\ wire = <<>>)

\* the server refused SSL: the connect failed and the transport has ended
C21_Witness ==
  /\ sslState = "refused"
  /\ cbLog = <<[c |-> 1, res |-> "sslUnsupported"]>>
  /\ ended
  /\ stream = "closed"

\* the StartupMessages written so far
Startups == SelectSeq(sent, LAMBDA m : m.what = "StartupMessage")

\* the handshake of a session with ssl that the server accepted
SSLHandshake ==
  <<[what |-> "SSLRequest", tls |-> FALSE],
    [what |-> "sslconnect", tls |-> TRUE],
    [what |-> "StartupMessage", tls |-> TRUE]>>

\* C22: a session writes at most one StartupMessage, and exactly one once the
\* server is past the handshake.  Without ssl it is written by the stream's
\* 'connect' event, on the plain stream, and is the only message of the
\* handshake.  With ssl the 'connect' event writes the SSLRequest only, and
\* the StartupMessage is written by the step that accepted the server's 'S',
\* after the TLS upgrade and 'sslconnect', on the TLS stream.
C22_OneStartupMessage ==
  /\ [](Len(Startups) <= 1)
  /\ [](srv \in {"auth", "pwwait", "sasldone", "authok", "keyed", "ready"} => Len(Startups) = 1)
  /\ [](~connectionParameters.ssl =>
          sent \in {<<>>, <<[what |-> "StartupMessage", tls |-> FALSE]>>})
  /\ [](connectionParameters.ssl =>
          sent \in {<<>>, SubSeq(SSLHandshake, 1, 1), SSLHandshake})
  /\ [][StreamConnect =>
          sent' = <<[what |-> IF connectionParameters.ssl THEN "SSLRequest" ELSE "StartupMessage",
                     tls |-> FALSE]>>]_vars
  /\ [][sent' # sent => (StreamConnect \/ SSLResponse("S", TRUE))]_vars

\* a session with ssl has connected after the full handshake
C22_Witness ==
  /\ connectionParameters.ssl
  /\ sent = SSLHandshake
  /\ connected
  /\ sslState = "tls"

\* the connect callback has been called with an error of the connection
ConnectFailed(log) ==
  \E i \in 1..Len(log) : log[i].res \notin {"ok", "alreadyConnected"}

\* C23: a password function is not called before an authentication request
\* that needs the password arrives (cleartext, MD5 or SASL), and is called
\* then.  When it resolves to a value that is neither null / undefined nor a
\* string, the Connection emits an error, so the connect is failed (unless
\* it has failed already), connectionParameters is left as it was and no
\* answer to the authentication request is written, then or later; the
\* session never becomes connected.
C23_ProviderLazyAndChecked ==
  /\ [][(pgpass = "none" /\ pgpass' # "none") =>
          /\ AuthenticationRequest
          /\ connectionParameters.password = "function"
          /\ pgpass' = "pending"]_vars
  /\ [][(AuthenticationRequest /\ connectionParameters.password = "function") =>
          (pgpass' = "pending" /\ ~pwSent')]_vars
  /\ [][PgPassResolve("nonstring") =>
          /\ pgpass' = "failed"
          /\ ~pwSent'
          /\ connectionParameters' = connectionParameters
          /\ connectionError'
          /\ ConnectFailed(cbLog')
          /\ ~connectionError =>
               cbLog' = Append(cbLog, [c |-> connectionCallback, res |-> "passwordNotString"])]_vars
  /\ [](pgpass = "failed" => (~pwSent /\ ~connected /\ srv \in {"pwwait", "gone"}))

\* the password function returned a value that is not a string: the connect
\* failed with the type error and no answer was written
C23_Witness ==
  /\ pgpass = "failed"
  /\ cbLog = <<[c |-> 1, res |-> "passwordNotString"]>>
  /\ ~pwSent
  /\ srv = "pwwait"

\* the registry of parsed statements of the session's connection
Registry ==
  IF parsedStatements.defined THEN parsedStatements.names ELSE stateParsedStatements

\* the step handles ParseComplete while the active query has a name
ParseCompleteNamed ==
  /\ ParseComplete
  /\ activeQuery # NoQuery
  /\ qcfg[activeQuery].name # NoName

\* C24: ParseComplete received while the active query has a name records
\* that name in the registry of the session's connection: the handler
\* completes and the name is then a member of the registry.
C24_ParseCompleteRecordsName ==
  [][ParseCompleteNamed =>
       (~crashed' /\ qcfg[activeQuery].name \in Registry')]_vars

\* C25: the registry only grows while the session is live, and it is empty
\* after end() and after the transport has ended.
C25_RegistryGrowsAndIsCleared ==
  /\ [][(~ending' /\ ~ended') => Registry \subseteq Registry']_vars
  /\ []((ending \/ ended) => Registry = {})

\* the step is a socket error with a disconnection code on a connection that
\* Connection.end() or the connection timeout has marked as ending
ResetWhileEnding == conEnding /\ \E code \in DisconnectCodes : StreamReset(code)

\* C26: a socket error with code ECONNRESET or EPIPE on a connection marked
\* as ending is not emitted: the Client sees no error (no 'error' event, no
\* connect failure, no query failed, the session stays queryable); every
\* other socket error reaches the Client's error handling.
C26_DisconnectErrorsSuppressedWhileEnding ==
  /\ [][ResetWhileEnding =>
          /\ errorEvents' = errorEvents
          /\ cbLog' = cbLog
          /\ connectionError' = connectionError
          /\ queryable' = queryable
          /\ ticks' = ticks
          /\ activeQuery' = activeQuery]_vars
  /\ [][(StreamError /\ ~connecting) => errorEvents' = errorEvents + 1]_vars
  /\ [][(StreamError /\ connecting /\ ~connectionError) =>
          (connectionError' /\ Len(cbLog') = Len(cbLog) + 1)]_vars

\* the query whose submit returned the error that the tick at the head of
\* ticks was queued for: the query submitted last
FailedSubmit == submitLog[Len(submitLog)]

\* C27: when the submit of a query returned an error, the tick queued for it
\* fails that query with the returned error (unless its read timeout has
\* failed it already), makes the session ready and pulses the queue: the
\* head of the queue, if any, is submitted in that tick, with no
\* ReadyForQuery in between; the error is delivered to no other query.
C27_SubmitErrorFailsQueryAndPulses ==
  /\ [][SubmitErrorStep =>
          /\ ~crashed'
          /\ completions' = IF qcb[FailedSubmit] = "noop"
                            THEN completions
                            ELSE Append(completions, [q |-> FailedSubmit, res |-> "submitError"])
          /\ IF queryQueue # <<>>
             THEN /\ submitLog' = Append(submitLog, Head(queryQueue))
                  /\ activeQuery' = Head(queryQueue)
                  /\ queryQueue' = Tail(queryQueue)
                  /\ ~readyForQuery'
             ELSE /\ submitLog' = submitLog
                  /\ activeQuery' = NoQuery
                  /\ readyForQuery']_vars
  /\ [](\A i \in 1..Len(completions) :
          completions[i].res = "submitError" =>
            (qcfg[completions[i].q].bad /\ completions[i].q \in Range(submitLog)))

\* the decimal text of the integers of the model
DecimalText(n) ==
  CASE n = -1 -> <<"-", "1">>
    [] n = 1 -> <<"1">>
    [] n = 2 -> <<"2">>
    [] n = 10 -> <<"1", "0">>

\* the elements of an array literal, separated by commas: NULL for a null,
\* the literal of a nested array, the decimal text of an integer between
\* the given quotes
RECURSIVE Elements(_, _)
Elements(items, quote) ==
  IF items = <<>>
  THEN <<>>
  ELSE LET item == Head(items)
           text == CASE item.type = "null" -> <<"N", "U", "L", "L">>
                     [] item.type = "array" -> <<"{">> \o Elements(item.items, quote) \o <<"}">>
                     [] OTHER -> quote \o DecimalText(item.v) \o quote
       IN text \o (IF Tail(items) = <<>> THEN <<>> ELSE <<",">> \o Elements(Tail(items), quote))

\* C28 as stated: prepareValue of an array of integers and nulls is the array
\* literal in which every null is the token NULL and every integer its
\* unquoted decimal text: [1, null, 2] gives {1,NULL,2}.
C28_ArrayLiteralUnquoted ==
  prepared.done =>
    prepared.result = [null |-> FALSE,
                       text |-> <<"{">> \o Elements(prepared.value.items, <<>>) \o <<"}">>]

\* C28 as amended: prepareValue of an array of integers and nulls is the
\* array literal in which every null is the unquoted token NULL, every
\* integer its decimal text between double quotes and every nested array
\* its own literal: [1, null, 2] gives {"1",NULL,"2"}.
C28_ArrayLiteralQuoted ==
  prepared.done =>
    prepared.result = [null |-> FALSE,
                       text |-> <<"{">> \o Elements(prepared.value.items, <<"\"">>) \o <<"}">>]

\* [1, null, 2] has been prepared
C28_Witness ==
  /\ prepared.done
  /\ prepared.value = JsArray(<<JsNumber(1), JsNull, JsNumber(2)>>)
  /\ prepared.result.text = <<"{", "\"", "1", "\"", ",", "N", "U", "L", "L", ",", "\"", "2", "\"", "}">>

\* the invocations of the callback of connect() call c, in order
CallbackLog(c) == SelectSeq(cbLog, LAMBDA e : e.c = c)

\* C29: a connect() call made while the connect started by an earlier call is
\* in progress, or done, is failed with the already-connected error and
\* nothing else, and the first caller is still notified of the outcome of
\* its connect: with success when the session becomes connected, with the
\* error when the connection fails.
C29_SecondConnectLeavesFirst ==
  /\ \A c \in 2..nConnects :
       \A i \in 1..Len(CallbackLog(c)) : CallbackLog(c)[i].res = "alreadyConnected"
  /\ connected => CallbackLog(1) = <<[c |-> 1, res |-> "ok"]>>
  /\ connectionError => (CallbackLog(1) # <<>> /\ CallbackLog(1)[1].res # "ok")

\* the invocations of the caller's callback of query q
CompletionsOf(q, log) == SelectSeq(log, LAMBDA e : e.q = q)

\* C30: the caller's callback of a query that has a read timeout is invoked
\* at most once: once the timer has delivered the timeout error nothing
\* more is delivered for that query, whatever arrives later (its
\* ReadyForQuery, an ErrorResponse, a connection error, the end of the
\* transport); a completion that comes first disarms the timer, which then
\* never fires.
C30_TimeoutCallbackAtMostOnce ==
  /\ [](\A q \in 1..Len(qcfg) :
          qcfg[q].timeout =>
            /\ Len(CompletionsOf(q, completions)) <= 1
            /\ timer[q] = "fired" =>
                 CompletionsOf(q, completions) = <<[q |-> q, res |-> "timeout"]>>
            /\ (CompletionsOf(q, completions) # <<>> /\ timer[q] # "fired") =>
                 timer[q] = "cleared")
  /\ [][\A q \in 1..Len(qcfg) :
          /\ timer[q] = "fired" => CompletionsOf(q, completions') = CompletionsOf(q, completions)
          /\ timer[q] \in {"fired", "cleared"} => timer'[q] = timer[q]]_vars

\* the timer of the first query fired while it was active, and its
\* ReadyForQuery came later; the second query completed, which disarmed its timer
C30_Witness ==
  /\ Len(qcfg) = 2
  /\ qcfg[1].timeout /\ qcfg[2].timeout
  /\ submitLog = <<1, 2>>
  /\ timer = <<"fired", "cleared">>
  /\ completions = <<[q |-> 1, res |-> "timeout"], [q |-> 2, res |-> "ok"]>>

\* a failure of a query is deferred: a nextTick callback that will fail a
\* query (handleError, or the callback after a submit that returned an error)
DeferredFailure ==
  \E i \in 1..Len(ticks) : ticks[i].kind \in {"handleError", "submitError"}

\* C31: once the transport has ended, and no deferred failure is
\* outstanding, the queue holds no query: query() after the end of the
\* transport fails the query instead of queueing it, also when the
\* transport ended after an error of the connection phase.
C31_NoQueryQueuedAfterEnded ==
  (ended /\ ~DeferredFailure) => queryQueue = <<>>

\* the backend may send a result message for the query on the wire: it has
\* sent neither the CommandComplete nor an ErrorResponse of that query
ResultPossible ==
  /\ ~crashed
  /\ stream = "open"
  /\ srv = "ready"
  /\ wire # <<>>
  /\ srvQ \in {"exec", "parsed", "rows"}

\* C32 as stated: from the submit of a query up to its ReadyForQuery,
\* also after an ErrorResponse has been handled, activeQuery is that query.
C32_ActiveQueryUntilReadyForQuery ==
  (~crashed /\ stream = "open" /\ srv = "ready" /\ wire # <<>>) => activeQuery = Head(wire)

\* C32: a result message (RowDescription, DataRow, PortalSuspended,
\* EmptyQueryResponse, CopyInResponse, CopyData) is never dispatched while
\* activeQuery is null: whenever the backend may send one, activeQuery is
\* the query on the wire, so the handlers never dereference null. After an
\* ErrorResponse of the query activeQuery is null until ReadyForQuery, and
\* the backend sends no result message in between.
C32_ResultMessageHasActiveQuery ==
  /\ [](ResultPossible => activeQuery = Head(wire))
  /\ [][ResultMessage => ~crashed']_vars
  /\ []((~crashed /\ stream = "open" /\ srv = "ready" /\ wire # <<>> /\ activeQuery = NoQuery)
          => srvQ = "done")

\* the first query failed by an ErrorResponse and got its ReadyForQuery; a
\* result message of the second query has been dispatched to it
C32_Witness ==
  /\ ~crashed
  /\ stream = "open"
  /\ ticks = <<>>
  /\ submitLog = <<1, 2>>
  /\ completions = <<[q |-> 1, res |-> "server"]>>
  /\ wire = <<2>>
  /\ srvQ = "rows"
  /\ activeQuery = 2

====
